---- MODULE Spec2Model ----
(***************************************************************************)
(* Model of fargatespawner.py: the FargateSpawner task controller          *)
(* (start / poll / stop / clear_state / load_state), the remote ECS API it *)
(* talks to, and the AsyncIteratorBuffer progress broadcaster.             *)
(*                                                                         *)
(* Every `await` of a remote call or of gen.sleep is a suspension point:   *)
(* the code between two suspension points is one atomic action.            *)
(***************************************************************************)
EXTENDS Integers, Sequences, FiniteSets, TLC

VARIABLES
    task_arn,          \* FargateSpawner.task_arn
    calling_run_task,  \* FargateSpawner.calling_run_task
    progress_buffer,   \* FargateSpawner.progress_buffer: 0 is None, else a heap slot
    buffers,           \* heap of AsyncIteratorBuffer objects: slot -> [futures]
    written,           \* history: slot -> the items passed to successful write() calls
    starts,            \* activations of start(): call -> frame
    poll,              \* the activation of poll()
    stop,              \* the activation of stop()
    iterators,         \* AsyncIteratorBuffer._Iterator objects and their consumers
    producer,          \* history of the direct write()/close() calls on the buffer
    authentication,    \* the FargateSpawnerECSRoleAuthentication object
    now,               \* the clock read by datetime.datetime.now() / utcnow()
    get_credentials,   \* activations of get_credentials(): caller -> frame
    endpoint,          \* history: the last response of the credentials endpoint
    signing            \* the arguments and the result of a call of _aws_headers

\* the fields of the spawner, its coroutines and the consumers of its buffer
spawnerVars == <<task_arn, calling_run_task, progress_buffer, buffers, written,
                 starts, poll, stop, iterators, producer>>

\* the credential provider and the signer
awsVars == <<authentication, now, get_credentials, endpoint, signing>>

vars == <<task_arn, calling_run_task, progress_buffer, buffers, written,
          starts, poll, stop, iterators, producer,
          authentication, now, get_credentials, endpoint, signing>>

----------------------------------------------------------------------------
(* Bounds and program constants *)

max_polls == 50

start_timeout == 3

notebook_port == 8888

MaxWrites == 3

NumIterators == 2

notebook_scheme == "http"

StartCalls == {1, 2}

Iterators == 1..NumIterators

Slots == 1..(NumIterators + 1)

\* the task RunTask creates, and the task of an earlier session restored by load_state
TaskArns == {"arn:task/new"}

StoredArns == {"arn:task/stored"}

Ips == {"10.0.0.1"}

Statuses == {"", "PROVISIONING", "PENDING", "RUNNING", "STOPPED"}

ALLOWED_STATUSES_WithStopped == {"", "PROVISIONING", "PENDING", "RUNNING", "STOPPED"}

ALLOWED_STATUSES == {"", "PROVISIONING", "PENDING", "RUNNING"}

----------------------------------------------------------------------------
(* Progress events.  Progress values are Python floats; they are kept here *)
(* as exact multiples of 1/Unit.                                           *)

Unit == 2 * max_polls * start_timeout

Progress(num, den) == (num * Unit) \div den

NoMessage == "<no message>"

Event(p, m) == [progress |-> p, message |-> m]

StartingEvent == Event(Progress(1, 2), "Starting server...")

TaskCreatedEvent == Event(Progress(1, 1), NoMessage)

NetworkPollEvent(num_polls) == Event(Progress(max_polls + num_polls, max_polls), NoMessage)

NetworkDoneEvent == Event(Progress(2, 1), NoMessage)

RunningPollEvent(num_polls) ==
    Event(Progress(2 * start_timeout + num_polls * 98, start_timeout), NoMessage)

ServerStartedEvent == Event(Progress(100, 1), "Server started")

----------------------------------------------------------------------------
(* AsyncIteratorBuffer: a list of futures, the last one pending or holding *)
(* StopAsyncIteration.                                                     *)

PendingFuture == [state |-> "pending", value |-> Event(0, NoMessage)]

ResultFuture(item) == [state |-> "result", value |-> item]

ExceptionFuture == [state |-> "exception", value |-> Event(0, NoMessage)]

NoBuffer == [futures |-> <<>>]

AsyncIteratorBuffer_init == [futures |-> <<PendingFuture>>]

LastFuture(buf) == buf.futures[Len(buf.futures)]

\* Future.set_result / set_exception raise InvalidStateError unless pending
CanSet(buf) == LastFuture(buf).state = "pending"

AsyncIteratorBuffer_write(buf, item) ==
    [futures |-> Append([buf.futures EXCEPT ![Len(buf.futures)] = ResultFuture(item)],
                        PendingFuture)]

AsyncIteratorBuffer_close(buf) ==
    [futures |-> [buf.futures EXCEPT ![Len(buf.futures)] = ExceptionFuture]]

IsClosed(buf) == Len(buf.futures) > 0 /\ LastFuture(buf).state = "exception"

IsFresh(buf) == buf = AsyncIteratorBuffer_init

\* a slot no iterator refers to can hold the next AsyncIteratorBuffer()
Referenced(slot) == \E i \in Iterators : iterators[i].state # "none" /\ iterators[i].parent = slot

FreeSlot == CHOOSE slot \in Slots : ~Referenced(slot) /\ \A t \in Slots : ~Referenced(t) => slot <= t

----------------------------------------------------------------------------
(* The remote API: responses of RunTask, DescribeTasks and StopTask *)

Task(status, attachments) == [lastStatus |-> status, attachments |-> attachments]

Detail(name, value) == [name |-> name, value |-> value]

Attachment(details) == [details |-> details]

WithoutIp == <<Attachment(<<Detail("subnetId", "subnet-1")>>)>>

WithIp(ip) ==
    <<Attachment(<<Detail("subnetId", "subnet-1"), Detail("privateIPv4Address", ip)>>)>>

DescribedTasks ==
    {Task(st, <<>>) : st \in Statuses} \cup
    {Task(st, WithIp(ip)) : st \in Statuses, ip \in Ips} \cup
    {Task("PROVISIONING", WithoutIp)}

\* tasks returned under the singular key
SingularTasks == {Task("PENDING", <<>>)} \cup {Task("RUNNING", WithIp(ip)) : ip \in Ips}

\* the `tasks` and `task` keys of a DescribeTasks body: <<>> when absent or empty
DescribeBodies ==
    {[tasks |-> <<>>, task |-> <<>>]} \cup
    {[tasks |-> <<t>>, task |-> <<>>] : t \in DescribedTasks} \cup
    {[tasks |-> <<>>, task |-> <<t>>] : t \in SingularTasks}

DescribeResponses ==
    {[ok |-> TRUE, body |-> b] : b \in DescribeBodies} \cup
    {[ok |-> FALSE, body |-> [tasks |-> <<>>, task |-> <<>>]]}

RunTaskResponses ==
    {[ok |-> TRUE, tasks |-> <<a>>] : a \in TaskArns} \cup
    {[ok |-> TRUE, tasks |-> <<>>], [ok |-> FALSE, tasks |-> <<>>]}

NotFoundPattern == <<"task", "was", "not", "found">>

StopResponses ==
    {[kind |-> "ok", body |-> <<>>],
     [kind |-> "HTTPError", body |-> <<"The", "referenced", "task", "was", "not", "found">>],
     [kind |-> "HTTPError", body |-> <<"cluster", "was", "not", "found">>],
     [kind |-> "TransportError", body |-> <<>>]}

\* `pattern in body` on byte strings, at the granularity of words
Contains(body, pattern) ==
    \E i \in 0..(Len(body) - Len(pattern)) :
        \A j \in 1..Len(pattern) : body[i + j] = pattern[j]

\* _describe_task: the task under `tasks`, else under `task`, else None (<<>>)
_describe_task(body) ==
    IF body.tasks # <<>> THEN <<body.tasks[1]>>
    ELSE IF body.task # <<>> THEN <<body.task[1]>>
    ELSE <<>>

_get_task_status_MissingIsStopped(body) ==
    LET described_task == _describe_task(body)
    IN IF described_task # <<>> THEN described_task[1].lastStatus ELSE "STOPPED"

_get_task_status(body) ==
    LET described_task == _describe_task(body)
    IN IF described_task # <<>> THEN described_task[1].lastStatus ELSE ""

_get_task_ip(body) ==
    LET described_task == _describe_task(body)
        details == IF described_task # <<>> /\ described_task[1].attachments # <<>>
                   THEN described_task[1].attachments[1].details ELSE <<>>
        ip_address_attachements ==
            SelectSeq(details, LAMBDA attachment : attachment.name = "privateIPv4Address")
    IN IF ip_address_attachements # <<>> THEN ip_address_attachements[1].value ELSE ""

----------------------------------------------------------------------------
(* Frames of the coroutines *)

Url(scheme, ip, port) == [scheme |-> scheme, ip |-> ip, port |-> port]

NoUrl == Url("", "", 0)

Error(kind, task, status) == [kind |-> kind, task |-> task, status |-> status]

NoError == Error("", "", "")

IdleStart ==
    [pc |-> "idle", task_arn |-> "", task_ip |-> "", status |-> "", num_polls |-> 0,
     result |-> NoUrl, error |-> NoError,
     run_calls |-> 0, ip_polls |-> 0, status_polls |-> 0]

NotSeen == "<not asked>"

Missing == "<no task>"

IdlePoll == [pc |-> "idle", arn |-> "", result |-> "", calls |-> 0, seen |-> NotSeen]

NoResponse == [kind |-> "", body |-> <<>>]

IdleStop == [pc |-> "idle", arn |-> "", calls |-> 0, response |-> NoResponse]

NoIterator == [state |-> "none", parent |-> 0, cursor |-> 0, read |-> <<>>]

Finished(frame) == frame.pc \in {"idle", "returned", "raised"}

NoStartInProgress == \A s \in StartCalls : Finished(starts[s])

Raised(frame, kind, task, status) ==
    [frame EXCEPT !.pc = "raised", !.error = Error(kind, task, status)]

RECURSIVE WriteAll(_, _)
WriteAll(buf, items) ==
    IF items = <<>> THEN buf
    ELSE WriteAll(AsyncIteratorBuffer_write(buf, Head(items)), Tail(items))

StartStep_ClosesOnRaise(s, frame, items, flag, arn) ==
    /\ task_arn' = arn
    /\ calling_run_task' = flag
    /\ starts' = [starts EXCEPT ![s] = frame]
    /\ buffers' = IF items = <<>>
                  THEN IF frame.pc = "raised" /\ progress_buffer # 0
                          /\ CanSet(buffers[progress_buffer])
                       THEN [buffers EXCEPT ![progress_buffer] = AsyncIteratorBuffer_close(@)]
                       ELSE buffers
                  ELSE [buffers EXCEPT ![progress_buffer] = WriteAll(@, items)]
    /\ written' = IF items = <<>> THEN written
                  ELSE [written EXCEPT ![progress_buffer] = @ \o items]
    /\ UNCHANGED <<progress_buffer, poll, stop, iterators, producer, awsVars>>

\* the effect of one atomic piece of start(): the new frame, the items written
\* to self.progress_buffer, and the new values of the two shared fields
StartStep(s, frame, items, flag, arn) ==
    /\ task_arn' = arn
    /\ calling_run_task' = flag
    /\ starts' = [starts EXCEPT ![s] = frame]
    /\ buffers' = IF items = <<>> THEN buffers
                  ELSE [buffers EXCEPT ![progress_buffer] = WriteAll(@, items)]
    /\ written' = IF items = <<>> THEN written
                  ELSE [written EXCEPT ![progress_buffer] = @ \o items]
    /\ UNCHANGED <<progress_buffer, poll, stop, iterators, producer, awsVars>>

----------------------------------------------------------------------------
(* FargateSpawner.start *)

connection_url_Blank(task_ip) == Url(notebook_scheme, "", notebook_port)

connection_url(task_ip) == Url(notebook_scheme, task_ip, notebook_port)

NextPoll_Late(frame, bound, kind, pc) ==
    LET num_polls == frame.num_polls + 1
    IN IF num_polls > bound
       THEN Raised([frame EXCEPT !.num_polls = num_polls], kind, task_arn', "")
       ELSE [frame EXCEPT !.num_polls = num_polls, !.pc = pc,
                          !.ip_polls = IF pc = "get_ip" THEN @ + 1 ELSE @,
                          !.status_polls = IF pc = "get_status" THEN @ + 1 ELSE @]

\* the head of a polling loop: count the attempt, give up at the bound,
\* otherwise issue DescribeTasks
NextPoll(frame, bound, kind, pc) ==
    LET num_polls == frame.num_polls + 1
    IN IF num_polls >= bound
       THEN Raised([frame EXCEPT !.num_polls = num_polls], kind, task_arn', "")
       ELSE [frame EXCEPT !.num_polls = num_polls, !.pc = pc,
                          !.ip_polls = IF pc = "get_ip" THEN @ + 1 ELSE @,
                          !.status_polls = IF pc = "get_status" THEN @ + 1 ELSE @]

\* lines 161-176: first progress event, raise the flag, issue RunTask
start_call(s) ==
    /\ Finished(starts[s])
    /\ IF progress_buffer = 0
       THEN StartStep(s, Raised(IdleStart, "AttributeError", "", ""), <<>>,
                      calling_run_task, task_arn)
       ELSE IF ~CanSet(buffers[progress_buffer])
       THEN StartStep(s, Raised(IdleStart, "InvalidStateError", "", ""), <<>>,
                      calling_run_task, task_arn)
       ELSE StartStep(s, [IdleStart EXCEPT !.pc = "run_task", !.run_calls = 1],
                      <<StartingEvent>>, TRUE, task_arn)

start_run_task_returns_NoFinally(s, response) ==
    /\ starts[s].pc = "run_task"
    /\ LET frame == starts[s]
        IN IF ~response.ok
           THEN StartStep(s, Raised(frame, "HTTPError", "", ""), <<>>, TRUE, task_arn)
           ELSE IF response.tasks = <<>>
           THEN StartStep(s, Raised(frame, "IndexError", "", ""), <<>>, TRUE, task_arn)
           ELSE IF ~CanSet(buffers[progress_buffer])
           THEN StartStep(s, Raised(frame, "InvalidStateError", "", ""), <<>>, TRUE, task_arn)
           ELSE StartStep(s,
                    NextPoll([frame EXCEPT !.task_arn = response.tasks[1],
                                           !.task_ip = "", !.num_polls = 0],
                             max_polls, "TimeoutIP", "get_ip"),
                    <<TaskCreatedEvent>>, FALSE, response.tasks[1])

\* lines 170-192: RunTask completes; on success record the task and enter
\* the network-wait loop
start_run_task_returns(s, response) ==
    /\ starts[s].pc = "run_task"
    /\ LET frame == starts[s]
        IN IF ~response.ok
           THEN StartStep(s, Raised(frame, "HTTPError", "", ""), <<>>, FALSE, task_arn)
           ELSE IF response.tasks = <<>>
           THEN StartStep(s, Raised(frame, "IndexError", "", ""), <<>>, FALSE, task_arn)
           ELSE IF ~CanSet(buffers[progress_buffer])
           THEN StartStep(s, Raised(frame, "InvalidStateError", "", ""), <<>>, FALSE, task_arn)
           ELSE StartStep(s,
                    NextPoll([frame EXCEPT !.task_arn = response.tasks[1],
                                           !.task_ip = "", !.num_polls = 0],
                             max_polls, "TimeoutIP", "get_ip"),
                    <<TaskCreatedEvent>>, FALSE, response.tasks[1])

\* line 192-193: DescribeTasks completes in the network-wait loop, sleep
start_get_ip_returns(s, response) ==
    /\ starts[s].pc = "get_ip"
    /\ LET frame == starts[s]
        IN IF ~response.ok
           THEN StartStep(s, Raised(frame, "HTTPError", "", ""), <<>>,
                          calling_run_task, task_arn)
           ELSE StartStep(s, [frame EXCEPT !.pc = "ip_sleep",
                                           !.task_ip = _get_task_ip(response.body)],
                          <<>>, calling_run_task, task_arn)

\* lines 194-206: after the sleep write the progress of this poll, then
\* either poll again or move on to the running-wait loop
start_ip_sleep_returns(s) ==
    /\ starts[s].pc = "ip_sleep"
    /\ LET frame == starts[s]
       IN IF ~CanSet(buffers[progress_buffer])
          THEN StartStep(s, Raised(frame, "InvalidStateError", "", ""), <<>>,
                         calling_run_task, task_arn)
          ELSE IF frame.task_ip = ""
          THEN StartStep(s, NextPoll(frame, max_polls, "TimeoutIP", "get_ip"),
                         <<NetworkPollEvent(frame.num_polls)>>,
                         calling_run_task, task_arn)
          ELSE StartStep(s,
                   NextPoll([frame EXCEPT !.num_polls = 0, !.status = ""],
                            start_timeout, "TimeoutRunning", "get_status"),
                   <<NetworkPollEvent(frame.num_polls), NetworkDoneEvent>>,
                   calling_run_task, task_arn)

start_get_status_returns_ResetsArn(s, response) ==
    /\ starts[s].pc = "get_status"
    /\ LET frame == starts[s]
            status == _get_task_status(response.body)
        IN IF ~response.ok
           THEN StartStep(s, Raised(frame, "HTTPError", "", ""), <<>>,
                          calling_run_task, task_arn)
           ELSE IF status \notin ALLOWED_STATUSES
           THEN StartStep(s, Raised([frame EXCEPT !.status = status],
                                    "TaskFailed", task_arn, status),
                          <<>>, calling_run_task, "")
           ELSE StartStep(s, [frame EXCEPT !.pc = "status_sleep", !.status = status],
                          <<>>, calling_run_task, task_arn)

\* lines 206-210: DescribeTasks completes in the running-wait loop
start_get_status_returns(s, response) ==
    /\ starts[s].pc = "get_status"
    /\ LET frame == starts[s]
            status == _get_task_status(response.body)
        IN IF ~response.ok
           THEN StartStep(s, Raised(frame, "HTTPError", "", ""), <<>>,
                          calling_run_task, task_arn)
           ELSE IF status \notin ALLOWED_STATUSES
           THEN StartStep(s, Raised([frame EXCEPT !.status = status],
                                    "TaskFailed", task_arn, status),
                          <<>>, calling_run_task, task_arn)
           ELSE StartStep(s, [frame EXCEPT !.pc = "status_sleep", !.status = status],
                          <<>>, calling_run_task, task_arn)

\* lines 211-214: after the sleep write the progress of this poll, then
\* either poll again or write the final event and sleep
start_status_sleep_returns(s) ==
    /\ starts[s].pc = "status_sleep"
    /\ LET frame == starts[s]
       IN IF ~CanSet(buffers[progress_buffer])
          THEN StartStep(s, Raised(frame, "InvalidStateError", "", ""), <<>>,
                         calling_run_task, task_arn)
          ELSE IF frame.status # "RUNNING"
          THEN StartStep(s, NextPoll(frame, start_timeout, "TimeoutRunning", "get_status"),
                         <<RunningPollEvent(frame.num_polls)>>,
                         calling_run_task, task_arn)
          ELSE StartStep(s, [frame EXCEPT !.pc = "final_sleep"],
                         <<RunningPollEvent(frame.num_polls), ServerStartedEvent>>,
                         calling_run_task, task_arn)

\* lines 216-218: close the progress buffer and return the URL
start_returns(s) ==
    /\ starts[s].pc = "final_sleep"
    /\ LET frame == starts[s]
       IN IF ~CanSet(buffers[progress_buffer])
          THEN StartStep(s, Raised(frame, "InvalidStateError", "", ""), <<>>,
                         calling_run_task, task_arn)
          ELSE /\ starts' = [starts EXCEPT ![s] =
                       [frame EXCEPT !.pc = "returned",
                                     !.result = connection_url(frame.task_ip)]]
               /\ buffers' = [buffers EXCEPT ![progress_buffer] = AsyncIteratorBuffer_close(@)]
               /\ UNCHANGED <<task_arn, calling_run_task, progress_buffer, written,
                              poll, stop, iterators, producer, awsVars>>

----------------------------------------------------------------------------
(* FargateSpawner.poll *)

\* what the remote answered: the lastStatus of the described task, or Missing
Seen(body) == IF _describe_task(body) = <<>> THEN Missing ELSE _describe_task(body)[1].lastStatus

PollResult_ArnFirst(flag, arn, status) ==
    IF arn = "" THEN "0"
    ELSE IF flag THEN "None"
    ELSE IF status \in ALLOWED_STATUSES THEN "None"
    ELSE "1"

\* lines 154-158: the conditional expression of poll()
PollResult(flag, arn, status) ==
    IF flag THEN "None"
    ELSE IF arn = "" THEN "0"
    ELSE IF status \in ALLOWED_STATUSES THEN "None"
    ELSE "1"

\* does the conditional expression reach the `await _get_task_status(...)`
PollNeedsStatus_Always(flag, arn) == arn # ""

PollNeedsStatus(flag, arn) == ~flag /\ arn # ""

poll_call ==
    /\ poll.pc # "describe"
    /\ poll' = IF PollNeedsStatus(calling_run_task, task_arn)
               THEN [IdlePoll EXCEPT !.pc = "describe", !.arn = task_arn, !.calls = 1]
               ELSE [IdlePoll EXCEPT !.pc = "returned",
                                     !.result = PollResult(calling_run_task, task_arn, "")]
    /\ UNCHANGED <<task_arn, calling_run_task, progress_buffer, buffers, written,
                   starts, stop, iterators, producer, awsVars>>

poll_describe_returns(response) ==
    /\ poll.pc = "describe"
    /\ poll' = IF ~response.ok
                THEN [poll EXCEPT !.pc = "raised", !.arn = ""]
                ELSE [poll EXCEPT !.pc = "returned", !.arn = "",
                                  !.seen = Seen(response.body),
                                  !.result = PollResult(FALSE, poll.arn,
                                                        _get_task_status(response.body))]
    /\ UNCHANGED <<task_arn, calling_run_task, progress_buffer, buffers, written,
                   starts, stop, iterators, producer, awsVars>>

----------------------------------------------------------------------------
(* FargateSpawner.stop and _ensure_stopped_task *)

\* line 256: an HTTPError is swallowed when its body contains the pattern
Swallowed_Any(response) == response.kind = "HTTPError"

Swallowed(response) ==
    response.kind = "HTTPError" /\ Contains(response.body, NotFoundPattern)

stop_call_AwaitsRunTask ==
    /\ stop.pc # "stop_task"
    /\ stop' = IF task_arn = "" /\ ~calling_run_task
               THEN [IdleStop EXCEPT !.pc = "returned"]
               ELSE [IdleStop EXCEPT !.pc = "stop_task", !.arn = task_arn, !.calls = 1]
    /\ UNCHANGED <<task_arn, calling_run_task, progress_buffer, buffers, written,
                   starts, poll, iterators, producer, awsVars>>

\* lines 220-224: the guard of stop() and the StopTask request it issues
stop_call ==
    /\ stop.pc # "stop_task"
    /\ stop' = IF task_arn = ""
               THEN [IdleStop EXCEPT !.pc = "returned"]
               ELSE [IdleStop EXCEPT !.pc = "stop_task", !.arn = task_arn, !.calls = 1]
    /\ UNCHANGED <<task_arn, calling_run_task, progress_buffer, buffers, written,
                   starts, poll, iterators, producer, awsVars>>

stop_task_returns(response) ==
    /\ stop.pc = "stop_task"
    /\ stop' = IF response.kind = "ok" \/ Swallowed(response)
                THEN [stop EXCEPT !.pc = "returned", !.arn = "", !.response = response]
                ELSE [stop EXCEPT !.pc = "raised", !.arn = "", !.response = response]
    /\ UNCHANGED <<task_arn, calling_run_task, progress_buffer, buffers, written,
                   starts, poll, iterators, producer, awsVars>>

----------------------------------------------------------------------------
(* FargateSpawner.clear_state and load_state *)

clear_state_KeepBuffer ==
    /\ task_arn' = ""
    /\ progress_buffer' = IF progress_buffer = 0 THEN FreeSlot ELSE progress_buffer
    /\ buffers' = IF progress_buffer = 0
                  THEN [buffers EXCEPT ![FreeSlot] = AsyncIteratorBuffer_init]
                  ELSE buffers
    /\ producer' = [producer EXCEPT !.base = producer.writes]
    /\ UNCHANGED <<calling_run_task, written, starts, poll, stop, iterators, awsVars>>

clear_state ==
    /\ task_arn' = ""
    /\ progress_buffer' = FreeSlot
    /\ buffers' = [slot \in Slots |->
                      IF slot = FreeSlot THEN AsyncIteratorBuffer_init
                      ELSE IF Referenced(slot) THEN buffers[slot]
                      ELSE NoBuffer]
    /\ written' = [slot \in Slots |->
                      IF slot = FreeSlot \/ ~Referenced(slot) THEN <<>> ELSE written[slot]]
    /\ producer' = [producer EXCEPT !.base = producer.writes]
    /\ UNCHANGED <<calling_run_task, starts, poll, stop, iterators, awsVars>>

load_state(state_task_arn) ==
    /\ task_arn' = state_task_arn
    /\ UNCHANGED <<calling_run_task, progress_buffer, buffers, written,
                   starts, poll, stop, iterators, producer, awsVars>>

----------------------------------------------------------------------------
(* FargateSpawnerECSRoleAuthentication.get_credentials.  A datetime is a    *)
(* number of seconds; the await of the fetch is the only suspension point.  *)

\* datetime.datetime(1900, 1, 1), the default of the Datetime trait
Sentinel == 0

SecondsPerMinute == 60

\* the clock is read every ClockStep seconds, at most MaxTicks times
ClockStep == 20

MaxTicks == 3

NumCallers == 2

NumVersions == 2

Callers == 1..NumCallers

Versions == 1..NumVersions

Digits == <<"1", "2", "3", "4", "5", "6", "7", "8", "9">>

SecurityTokenName ==
    <<"x", "-", "a", "m", "z", "-", "s", "e", "c", "u", "r", "i", "t", "y", "-",
      "t", "o", "k", "e", "n">>

\* one entry of a dict
Header(name, value) == [name |-> name, value |-> value]

AccessKeyId(v) == <<"A", "K", "I", "A", Digits[v]>>

SecretAccessKey(v) == <<"s", "e", "c", "r", "e", "t", Digits[v]>>

Token(v) == <<"t", "o", "k", Digits[v]>>

\* the text of an Expiration, '%Y-%m-%dT%H:%M:%SZ': its minutes and seconds
\* (the other fields are those of the day and hour the clock starts in)
ExpirationTexts == {[MM |-> m, SS |-> s] : m \in 0..1, s \in {ClockStep, 2 * ClockStep}}

strptime(text) == text.MM * SecondsPerMinute + text.SS

\* the JSON bodies the credentials endpoint returns
FetchBodies ==
    {[AccessKeyId |-> AccessKeyId(v), SecretAccessKey |-> SecretAccessKey(v),
      Token |-> Token(v), Expiration |-> e] : v \in Versions, e \in ExpirationTexts}

NoBody == [AccessKeyId |-> <<>>, SecretAccessKey |-> <<>>, Token |-> <<>>,
           Expiration |-> [MM |-> 0, SS |-> 0]]

FetchResponses ==
    {[ok |-> TRUE, body |-> b] : b \in FetchBodies} \cup {[ok |-> FALSE, body |-> NoBody]}

AwsCreds(access_key_id, secret_access_key, pre_auth_headers) ==
    [access_key_id |-> access_key_id, secret_access_key |-> secret_access_key,
     pre_auth_headers |-> pre_auth_headers]

NoCreds == AwsCreds(<<>>, <<>>, <<>>)

\* lines 73-76: the defaults of the traits
ECSRoleAuthentication_init ==
    [aws_access_key_id |-> <<>>, aws_secret_access_key |-> <<>>,
     pre_auth_headers |-> <<>>, expiration |-> Sentinel]

IdleCredentials == [pc |-> "idle", result |-> NoCreds, fetches |-> 0]

Expired_Inclusive(time, expiration) == time >= expiration

\* line 81
Expired(time, expiration) == time > expiration

Refreshed_SecretLater(auth, creds) ==
    [aws_access_key_id |-> creds.AccessKeyId,
     aws_secret_access_key |-> auth.aws_secret_access_key,
     pre_auth_headers |-> <<Header(SecurityTokenName, creds.Token)>>,
     expiration |-> strptime(creds.Expiration)]

\* lines 84-89
Refreshed(auth, creds) ==
    [aws_access_key_id |-> creds.AccessKeyId,
     aws_secret_access_key |-> creds.SecretAccessKey,
     pre_auth_headers |-> <<Header(SecurityTokenName, creds.Token)>>,
     expiration |-> strptime(creds.Expiration)]

\* lines 91-95
CurrentCreds(auth) ==
    AwsCreds(auth.aws_access_key_id, auth.aws_secret_access_key, auth.pre_auth_headers)

\* lines 79-83 and 91-95: read the clock; return the cached credentials, or
\* issue the fetch
get_credentials_call(c) ==
    /\ get_credentials[c].pc # "fetch"
    /\ get_credentials' = [get_credentials EXCEPT ![c] =
           IF Expired(now, authentication.expiration)
           THEN [IdleCredentials EXCEPT !.pc = "fetch", !.fetches = 1]
           ELSE [IdleCredentials EXCEPT !.pc = "returned",
                                        !.result = CurrentCreds(authentication)]]
    /\ UNCHANGED <<authentication, now, endpoint, signing, spawnerVars>>

\* lines 83-95: the fetch completes; replace the cached fields and return them
get_credentials_fetch_returns(c, response) ==
    /\ get_credentials[c].pc = "fetch"
    /\ IF ~response.ok
       THEN /\ get_credentials' = [get_credentials EXCEPT ![c].pc = "raised"]
            /\ UNCHANGED <<authentication, endpoint>>
       ELSE /\ authentication' = Refreshed(authentication, response.body)
            /\ get_credentials' = [get_credentials EXCEPT ![c] =
                   [@ EXCEPT !.pc = "returned", !.result = CurrentCreds(authentication')]]
            /\ endpoint' = [completed |-> TRUE, last |-> response.body]
    /\ UNCHANGED <<now, signing, spawnerVars>>

\* time passes
Tick ==
    /\ now < MaxTicks * ClockStep
    /\ now' = now + ClockStep
    /\ UNCHANGED <<authentication, get_credentials, endpoint, signing, spawnerVars>>

----------------------------------------------------------------------------
(* Strings and dicts.  A str is the sequence of its characters (a piece of  *)
(* a header value that holds no whitespace may stand as one element); a     *)
(* dict is the sequence of its items in insertion order.                    *)

Uppercase ==
    <<"A", "B", "C", "D", "E", "F", "G", "H", "I", "J", "K", "L", "M",
      "N", "O", "P", "Q", "R", "S", "T", "U", "V", "W", "X", "Y", "Z">>

Lowercase ==
    <<"a", "b", "c", "d", "e", "f", "g", "h", "i", "j", "k", "l", "m",
      "n", "o", "p", "q", "r", "s", "t", "u", "v", "w", "x", "y", "z">>

DigitChars == <<"0">> \o Digits

\* the characters of header names, in code point order
Alphabet == <<" ", "-">> \o DigitChars \o Uppercase \o Lowercase

Ord(ch) == CHOOSE i \in 1..Len(Alphabet) : Alphabet[i] = ch

\* str.lower
lower(text) ==
    [i \in 1..Len(text) |->
        IF \E k \in 1..Len(Uppercase) : Uppercase[k] = text[i]
        THEN Lowercase[CHOOSE k \in 1..Len(Uppercase) : Uppercase[k] = text[i]]
        ELSE text[i]]

\* str.strip
strip(text) ==
    LET inked == {i \in 1..Len(text) : text[i] # " "}
    IN IF inked = {} THEN <<>>
       ELSE SubSeq(text, CHOOSE i \in inked : \A j \in inked : i <= j,
                         CHOOSE i \in inked : \A j \in inked : i >= j)

\* a < b on str: by the first character that differs, else by length
StrLess(a, b) ==
    LET differ == {i \in 1..Len(a) : i <= Len(b) /\ a[i] # b[i]}
    IN IF differ = {} THEN Len(a) < Len(b)
       ELSE LET i == CHOOSE i \in differ : \A j \in differ : i <= j
            IN Ord(a[i]) < Ord(b[i])

RECURSIVE Insert(_, _)
Insert(text, list) ==
    IF list = <<>> THEN <<text>>
    ELSE IF StrLess(text, Head(list)) THEN <<text>> \o list
    ELSE <<Head(list)>> \o Insert(text, Tail(list))

sorted_Unsorted(list) == list

\* sorted(list) on a list of str
RECURSIVE sorted(_)
sorted(list) ==
    IF list = <<>> THEN <<>>
    ELSE Insert(list[Len(list)], sorted(SubSeq(list, 1, Len(list) - 1)))

\* sep.join(list)
RECURSIVE join(_, _)
join(sep, list) ==
    IF list = <<>> THEN <<>>
    ELSE IF Len(list) = 1 THEN list[1]
    ELSE list[1] \o sep \o join(sep, Tail(list))

keys(dict) == [i \in 1..Len(dict) |-> dict[i].name]

Get(dict, name) == dict[CHOOSE i \in 1..Len(dict) : dict[i].name = name].value

\* dict[name] = value
Set(dict, name, value) ==
    IF \E i \in 1..Len(dict) : dict[i].name = name
    THEN [i \in 1..Len(dict) |-> IF dict[i].name = name THEN Header(name, value) ELSE dict[i]]
    ELSE Append(dict, Header(name, value))

\* {**dict, **more}
RECURSIVE Merge(_, _)
Merge(dict, more) ==
    IF more = <<>> THEN dict
    ELSE Merge(Set(dict, more[1].name, more[1].value), Tail(more))

\* hashlib.sha256(data).hexdigest(), hmac.new(key, msg, sha256).digest():
\* the digest stands for what was hashed
sha256(data) == <<"sha256(">> \o data \o <<")">>

sign(key, msg) == <<"hmac(">> \o key \o <<",">> \o msg \o <<")">>

\* urllib.parse.quote: a character that is neither unreserved nor safe is
\* replaced by its percent-escape
quote(text, safe) ==
    LET unreserved == {Alphabet[i] : i \in 2..Len(Alphabet)} \cup {"_", ".", "~"}
    IN [i \in 1..Len(text) |->
           IF text[i] \in unreserved \cup safe THEN text[i] ELSE <<"%", text[i]>>]

\* now.strftime('%Y%m%d'): the day the clock runs in
strftime_datestamp(time) == <<"2", "0", "2", "0", "0", "1", "0", "1">>

\* now.strftime('%Y%m%dT%H%M%SZ')
strftime_amzdate(time) ==
    LET TwoDigits(n) == <<DigitChars[(n \div 10) + 1], DigitChars[(n % 10) + 1]>>
    IN strftime_datestamp(time) \o <<"T", "0", "0">>
           \o TwoDigits(time \div SecondsPerMinute)
           \o TwoDigits(time % SecondsPerMinute) \o <<"Z">>

----------------------------------------------------------------------------
(* _aws_headers *)

HostName ==
    <<"h", "o", "s", "t">>

ContentSha256Name ==
    <<"x", "-", "a", "m", "z", "-", "c", "o", "n", "t", "e", "n", "t", "-",
      "s", "h", "a", "2", "5", "6">>

DateName ==
    <<"x", "-", "a", "m", "z", "-", "d", "a", "t", "e">>

TargetName ==
    <<"X", "-", "A", "m", "z", "-", "T", "a", "r", "g", "e", "t">>

ContentTypeName ==
    <<"C", "o", "n", "t", "e", "n", "t", "-", "T", "y", "p", "e">>

AuthorizationName ==
    <<"A", "u", "t", "h", "o", "r", "i", "z", "a", "t", "i", "o", "n">>

\* line 362
credential_scope(region, service) ==
    strftime_datestamp(now) \o <<"/">> \o region \o <<"/">> \o service \o <<"/aws4_request">>

\* lines 363-366: later items replace the value of an equal lower-cased name
RECURSIVE headers_lower(_)
headers_lower(pre_auth_headers) ==
    IF pre_auth_headers = <<>> THEN <<>>
    ELSE LET last == pre_auth_headers[Len(pre_auth_headers)]
         IN Set(headers_lower(SubSeq(pre_auth_headers, 1, Len(pre_auth_headers) - 1)),
                strip(lower(last.name)), strip(last.value))

\* line 367
required_headers == <<HostName, ContentSha256Name, DateName>>

\* lines 368-369
signed_header_keys(pre_auth_headers) ==
    sorted(keys(headers_lower(pre_auth_headers)) \o required_headers)

\* line 370
signed_headers(pre_auth_headers) == join(<<";">>, signed_header_keys(pre_auth_headers))

\* line 371
payload_hash(payload) == sha256(payload)

\* lines 375-380
header_values(host, pre_auth_headers, payload) ==
    Merge(headers_lower(pre_auth_headers),
          <<Header(HostName, host),
            Header(ContentSha256Name, payload_hash(payload)),
            Header(DateName, strftime_amzdate(now))>>)

\* lines 383-387
canonical_querystring(query) ==
    LET query_keys == sorted(keys(query))
    IN join(<<"&">>, [i \in 1..Len(query_keys) |->
                        quote(query_keys[i], {"~"}) \o <<"=">>
                            \o quote(Get(query, query_keys[i]), {"~"})])

\* lines 388-391
canonical_headers(host, pre_auth_headers, payload) ==
    LET names == signed_header_keys(pre_auth_headers)
        values == header_values(host, pre_auth_headers, payload)
    IN join(<<>>, [i \in 1..Len(names) |->
                      names[i] \o <<":">> \o Get(values, names[i]) \o <<"\n">>])

\* lines 374-394
canonical_request(host, method, path, query, pre_auth_headers, payload) ==
    join(<<"\n">>, <<method, quote(path, {"/", "~"}), canonical_querystring(query),
                     canonical_headers(host, pre_auth_headers, payload),
                     signed_headers(pre_auth_headers), payload_hash(payload)>>)

\* lines 399-407
signature(service, secret_access_key, region, host, method, path, query, pre_auth_headers, payload) ==
    LET string_to_sign ==
            join(<<"\n">>, <<(<<"AWS4-HMAC-SHA256">>), strftime_amzdate(now),
                             credential_scope(region, service),
                             sha256(canonical_request(host, method, path, query,
                                                      pre_auth_headers, payload))>>)
        date_key == sign(<<"AWS4">> \o secret_access_key, strftime_datestamp(now))
        region_key == sign(date_key, region)
        service_key == sign(region_key, service)
        request_key == sign(service_key, <<"aws4_request">>)
    IN sign(request_key, string_to_sign)

\* lines 355-417
_aws_headers(service, access_key_id, secret_access_key, region, host, method, path, query, pre_auth_headers, payload) ==
    Merge(pre_auth_headers,
          <<Header(DateName, strftime_amzdate(now)),
            Header(ContentSha256Name, payload_hash(payload)),
            Header(AuthorizationName,
                   <<"AWS4-HMAC-SHA256", " Credential=">> \o access_key_id \o <<"/">>
                       \o credential_scope(region, service)
                       \o <<", SignedHeaders=">> \o signed_headers(pre_auth_headers)
                       \o <<", Signature=">>
                       \o signature(service, secret_access_key, region, host, method,
                                    path, query, pre_auth_headers, payload))>>)

Targets == {"RunTask", "DescribeTasks", "StopTask"}

Hosts == {<<"ecs.eu-west-1.amazonaws.com">>, <<"ecs.test">>}

\* what get_credentials() returns: the configured keys without extra headers
\* (FargateSpawnerSecretAccessKeyAuthentication), or the fetched keys with the
\* session token header, whose value may come with blanks around it
SignerCredentials ==
    {AwsCreds(AccessKeyId(v), SecretAccessKey(v), <<>>) : v \in Versions} \cup
    {AwsCreds(AccessKeyId(v), SecretAccessKey(v), <<Header(SecurityTokenName, Token(v))>>) :
        v \in Versions} \cup
    {AwsCreds(AccessKeyId(v), SecretAccessKey(v),
              <<Header(SecurityTokenName, <<" ">> \o Token(v) \o <<" ">>)>>) : v \in Versions}

\* lines 329-341: the arguments _make_ecs_request passes to _aws_headers
ECSRequest(target, credentials, host) ==
    [service |-> <<"ecs">>,
     access_key_id |-> credentials.access_key_id,
     secret_access_key |-> credentials.secret_access_key,
     region |-> <<"eu-west-1">>,
     host |-> host,
     method |-> <<"POST">>,
     path |-> <<"/">>,
     query |-> <<>>,
     pre_auth_headers |->
         Merge(<<Header(TargetName, <<"AmazonEC2ContainerServiceV20141113.", target>>),
                 Header(ContentTypeName, <<"application/x-amz-json-1.1">>)>>,
               credentials.pre_auth_headers),
     payload |-> <<"{", target, "}">>]

SignerArgs ==
    {ECSRequest(target, credentials, host) :
        target \in Targets, credentials \in SignerCredentials, host \in Hosts}

NoSigning ==
    [pc |-> "idle", args |-> <<>>, headers |-> <<>>,
     signed_header_keys |-> <<>>, canonical_headers |-> <<>>]

\* lines 339-341: the call of _aws_headers; the frame keeps two of its locals
sign_request ==
    /\ signing.pc = "called"
    /\ LET a == signing.args
       IN signing' =
            [pc |-> "returned", args |-> a,
             headers |-> _aws_headers(a.service, a.access_key_id, a.secret_access_key,
                                      a.region, a.host, a.method, a.path, a.query,
                                      a.pre_auth_headers, a.payload),
             signed_header_keys |-> signed_header_keys(a.pre_auth_headers),
             canonical_headers |-> canonical_headers(a.host, a.pre_auth_headers, a.payload)]
    /\ UNCHANGED <<authentication, now, get_credentials, endpoint, spawnerVars>>


----------------------------------------------------------------------------
(* The state after construction *)

InitSpawner ==
    /\ task_arn = ""
    /\ calling_run_task = FALSE
    /\ progress_buffer = 0
    /\ buffers = [slot \in Slots |-> NoBuffer]
    /\ written = [slot \in Slots |-> <<>>]
    /\ starts = [s \in StartCalls |-> IdleStart]
    /\ poll = IdlePoll
    /\ stop = IdleStop
    /\ iterators = [i \in Iterators |-> NoIterator]
    /\ producer = [raised |-> "", writes |-> 0, base |-> 0]

InitAuthentication ==
    /\ authentication = ECSRoleAuthentication_init
    /\ get_credentials = [c \in Callers |-> IdleCredentials]
    /\ endpoint = [completed |-> FALSE, last |-> NoBody]

Init ==
    /\ InitSpawner
    /\ InitAuthentication
    /\ now = ClockStep
    /\ signing = NoSigning

----------------------------------------------------------------------------
(* The controller under the host's scheduling: poll() and stop() may run    *)
(* while start() is suspended; start(), clear_state() and load_state() are  *)
(* not invoked while a start() is in progress.  A start-attempt gets the    *)
(* progress buffer of the last clear_state(): start() is invoked on a fresh *)
(* buffer, or on None or a closed buffer, where its first write raises.     *)

HostMayStart ==
    IF progress_buffer = 0 THEN TRUE
    ELSE IF ~CanSet(buffers[progress_buffer]) THEN TRUE
    ELSE IsFresh(buffers[progress_buffer])

HostStart == NoStartInProgress /\ HostMayStart /\ start_call(1)

HostClear == NoStartInProgress /\ clear_state

\* load_state is called when the spawner is first created, before any start()
HostLoad ==
    /\ \A s \in StartCalls : starts[s] = IdleStart
    /\ \E a \in StoredArns \cup {""} : load_state(a)

StartRuns(s, Described) ==
    \/ \E response \in RunTaskResponses : start_run_task_returns(s, response)
    \/ \E response \in Described : start_get_ip_returns(s, response)
    \/ start_ip_sleep_returns(s)
    \/ \E response \in Described : start_get_status_returns(s, response)
    \/ start_status_sleep_returns(s)
    \/ start_returns(s)

Next ==
    \/ HostStart
    \/ StartRuns(1, DescribeResponses)
    \/ HostClear
    \/ HostLoad
    \/ poll_call
    \/ \E response \in DescribeResponses : poll_describe_returns(response)
    \/ stop_call
    \/ \E response \in StopResponses : stop_task_returns(response)

Spec == Init /\ [][Next]_vars

----------------------------------------------------------------------------
(* AsyncIteratorBuffer._Iterator, consumed by `async for` as in progress() *)

\* `return await future` once the future is done
Deliver_NoStop(iterator, future) ==
    IF future.state = "result"
    THEN [iterator EXCEPT !.state = "ready", !.read = Append(@, future.value)]
    ELSE [iterator EXCEPT !.state = "ready"]

Deliver(iterator, future) ==
    IF future.state = "result"
    THEN [iterator EXCEPT !.state = "ready", !.read = Append(@, future.value)]
    ELSE [iterator EXCEPT !.state = "stopped"]

__aiter__(i) ==
    /\ progress_buffer # 0
    /\ iterators[i].state \in {"none", "stopped"}
    /\ iterators' = [iterators EXCEPT ![i] =
            [state |-> "ready", parent |-> progress_buffer, cursor |-> 0, read |-> <<>>]]
    /\ UNCHANGED <<task_arn, calling_run_task, progress_buffer, buffers, written,
                   starts, poll, stop, producer, awsVars>>

NextCursor_Skip(cursor) == cursor + 2

NextCursor(cursor) == cursor + 1

\* lines 430-432; the list index self.cursor is position cursor + 1 here
__anext__(i) ==
    /\ iterators[i].state = "ready"
    /\ LET iterator == iterators[i]
           futures == buffers[iterator.parent].futures
           moved == [iterator EXCEPT !.cursor = NextCursor(iterator.cursor)]
       IN iterators' = [iterators EXCEPT ![i] =
            IF iterator.cursor + 1 > Len(futures)
            THEN [iterator EXCEPT !.state = "IndexError"]
            ELSE IF futures[iterator.cursor + 1].state = "pending"
            THEN [moved EXCEPT !.state = "awaiting", !.parent = iterator.parent]
            ELSE Deliver(moved, futures[iterator.cursor + 1])]
    /\ UNCHANGED <<task_arn, calling_run_task, progress_buffer, buffers, written,
                   starts, poll, stop, producer, awsVars>>

\* the future awaited at line 432 is the one fetched at line 430
Awaited(iterator) == buffers[iterator.parent].futures[iterator.cursor]

\* a suspended __anext__ resumes once its future has been set
resume(i) ==
    /\ iterators[i].state = "awaiting"
    /\ iterators[i].cursor <= Len(buffers[iterators[i].parent].futures)
    /\ Awaited(iterators[i]).state # "pending"
    /\ iterators' = [iterators EXCEPT ![i] = Deliver(@, Awaited(iterators[i]))]
    /\ UNCHANGED <<task_arn, calling_run_task, progress_buffer, buffers, written,
                   starts, poll, stop, producer, awsVars>>

----------------------------------------------------------------------------
(* The broadcaster driven directly: a producer that writes numbered items   *)
(* and closes, consumers that subscribe and iterate, and clear_state        *)
(* replacing the buffer.                                                    *)

Item(n) == Event(n, NoMessage)

write ==
    /\ progress_buffer # 0
    /\ producer.writes < MaxWrites
    /\ IF CanSet(buffers[progress_buffer])
       THEN /\ buffers' = [buffers EXCEPT ![progress_buffer] =
                              AsyncIteratorBuffer_write(@, Item(producer.writes + 1))]
            /\ written' = [written EXCEPT ![progress_buffer] =
                              Append(@, Item(producer.writes + 1))]
            /\ producer' = [producer EXCEPT !.raised = "", !.writes = @ + 1]
       ELSE /\ producer' = [producer EXCEPT !.raised = "InvalidStateError"]
            /\ UNCHANGED <<buffers, written>>
    /\ UNCHANGED <<task_arn, calling_run_task, progress_buffer, starts, poll, stop, iterators, awsVars>>

close ==
    /\ progress_buffer # 0
    /\ IF CanSet(buffers[progress_buffer])
       THEN /\ buffers' = [buffers EXCEPT ![progress_buffer] = AsyncIteratorBuffer_close(@)]
            /\ producer' = [producer EXCEPT !.raised = ""]
       ELSE /\ producer' = [producer EXCEPT !.raised = "InvalidStateError"]
            /\ UNCHANGED buffers
    /\ UNCHANGED <<task_arn, calling_run_task, progress_buffer, written,
                   starts, poll, stop, iterators, awsVars>>

\* the one buffer of a start-attempt
Construct == progress_buffer = 0 /\ clear_state

NextBroadcaster ==
    \/ Construct
    \/ write
    \/ close
    \/ \E i \in Iterators : __aiter__(i)
    \/ \E i \in Iterators : __anext__(i)
    \/ \E i \in Iterators : resume(i)

SpecBroadcaster == Init /\ [][NextBroadcaster]_vars

\* a consumer that keeps iterating is scheduled by the event loop
FairSpecBroadcaster ==
    /\ SpecBroadcaster
    /\ \A i \in Iterators : WF_vars(__anext__(i)) /\ WF_vars(resume(i))

----------------------------------------------------------------------------
(* clear_state replacing the buffer between writes, with one consumer and   *)
(* poll().                                                                  *)

Subscriber == 1

NextClear ==
    \/ HostClear
    \/ (progress_buffer = 0 /\ HostLoad)
    \/ write
    \/ close
    \/ __aiter__(Subscriber)
    \/ __anext__(Subscriber)
    \/ resume(Subscriber)
    \/ poll_call
    \/ \E response \in DescribeResponses : poll_describe_returns(response)

SpecClear == Init /\ [][NextClear]_vars

----------------------------------------------------------------------------
(* The controller when the host invokes start() again while an earlier      *)
(* start() has not finished; the remote describes the task at once.         *)

PromptResponses ==
    {[ok |-> TRUE, body |-> [tasks |-> <<Task(st, WithIp(ip))>>, task |-> <<>>]] :
        st \in {"RUNNING", "STOPPED"}, ip \in Ips}

\* a call of start() that has not been used yet is invoked while the RunTask
\* of another call is in flight
HostStartAgain(s) ==
    /\ starts[s] = IdleStart
    /\ \E t \in StartCalls \ {s} : starts[t].pc = "run_task"
    /\ start_call(s)

NextReentrant ==
    \/ \E s \in StartCalls : NoStartInProgress /\ HostMayStart /\ start_call(s)
    \/ \E s \in StartCalls : HostStartAgain(s)
    \/ \E s \in StartCalls : StartRuns(s, PromptResponses)
    \/ HostClear

SpecReentrant == Init /\ [][NextReentrant]_vars

----------------------------------------------------------------------------
(* One start-attempt after another, each on the buffer of a clear_state(),  *)
(* with nothing else running.  Every remote call and every sleep of a       *)
(* start() in progress returns eventually.                                  *)

NextStart ==
    \/ HostStart
    \/ StartRuns(1, DescribeResponses)
    \/ HostClear

SpecStart == Init /\ [][NextStart]_vars

FairSpecStart == SpecStart /\ WF_vars(StartRuns(1, DescribeResponses))

----------------------------------------------------------------------------
(* Start-attempts watched by one consumer of the progress buffer.  A new    *)
(* start-attempt begins only when no buffer that clear_state() has replaced *)
(* is left.                                                                 *)

NextProgress ==
    \/ /\ \A slot \in Slots \ {progress_buffer} : buffers[slot] = NoBuffer
       /\ HostStart
    \/ StartRuns(1, DescribeResponses)
    \/ HostClear
    \/ __aiter__(Subscriber)
    \/ __anext__(Subscriber)
    \/ resume(Subscriber)

SpecProgress == Init /\ [][NextProgress]_vars

----------------------------------------------------------------------------
(* The credential provider called by one caller after another, and by       *)
(* callers whose calls overlap at the fetch.                                *)

NoCallInFlight == \A c \in Callers : get_credentials[c].pc # "fetch"

NextCredentials ==
    \/ \E c \in Callers : NoCallInFlight /\ get_credentials_call(c)
    \/ \E c \in Callers : \E response \in FetchResponses :
          get_credentials_fetch_returns(c, response)
    \/ Tick

SpecCredentials == Init /\ [][NextCredentials]_vars

NextCredentialsConcurrent ==
    \/ \E c \in Callers : get_credentials_call(c)
    \/ \E c \in Callers : \E response \in FetchResponses :
          get_credentials_fetch_returns(c, response)
    \/ Tick

SpecCredentialsConcurrent == Init /\ [][NextCredentialsConcurrent]_vars

----------------------------------------------------------------------------
(* _aws_headers applied to the requests _make_ecs_request builds, at any    *)
(* time of the clock.                                                       *)

Times == {ClockStep * k : k \in 1..MaxTicks}

InitSigner ==
    /\ InitSpawner
    /\ InitAuthentication
    /\ now \in Times
    /\ signing \in {[NoSigning EXCEPT !.pc = "called", !.args = a] : a \in SignerArgs}

SpecSigner == InitSigner /\ [][sign_request]_vars

----------------------------------------------------------------------------
(* Properties *)

IsPrefix(a, b) == Len(a) <= Len(b) /\ \A k \in 1..Len(a) : a[k] = b[k]

\* steps of poll() and stop(), recognised by the frame they change
PollCalled == poll.pc # "describe" /\ poll' # poll

PollDescribed == poll.pc = "describe" /\ poll' # poll

StopCalled == stop.pc # "stop_task" /\ stop' # stop

StopTaskReturned == stop.pc = "stop_task" /\ stop' # stop

ClaimedAllowed == {"", "PROVISIONING", "PENDING", "RUNNING"}

\* C1: poll() decides in this order: flag set -> None without an API call,
\* whatever task_arn is; else task_arn empty -> 0 without an API call; else
\* one DescribeTasks for task_arn, and None when the remote lastStatus is
\* "", PROVISIONING, PENDING or RUNNING, 1 for any other status.
PollDecidesInOrder ==
    [][ /\ PollCalled =>
             IF calling_run_task
             THEN poll'.pc = "returned" /\ poll'.result = "None" /\ poll'.calls = 0
             ELSE IF task_arn = ""
             THEN poll'.pc = "returned" /\ poll'.result = "0" /\ poll'.calls = 0
             ELSE poll'.pc = "describe" /\ poll'.arn = task_arn /\ poll'.calls = 1
        /\ (PollDescribed /\ poll'.pc = "returned") =>
             /\ poll'.calls = 1
             /\ poll'.result \in {"None", "1"}
             /\ poll'.seen \in ClaimedAllowed => poll'.result = "None"
             /\ poll'.seen \in Statuses \ ClaimedAllowed => poll'.result = "1"
      ]_vars

\* poll() answered None without asking the remote, with the flag up and a task recorded
PollDuringRunTaskWithArn ==
    /\ calling_run_task
    /\ task_arn # ""
    /\ poll.pc = "returned" /\ poll.result = "None" /\ poll.calls = 0

StartReturned(s) == starts[s].pc = "final_sleep" /\ starts'[s].pc = "returned"

LastWritten(slot) == written[slot][Len(written[slot])]

\* C2: on the success path the 100-point event is written, then the progress
\* buffer is closed, then start() returns the URL built from the observed IP;
\* nothing is written after the 100-point event.
StartSucceedsInOrder ==
    /\ [](\A s \in StartCalls :
            /\ starts[s].pc = "final_sleep" =>
                 /\ CanSet(buffers[progress_buffer])
                 /\ LastWritten(progress_buffer) = ServerStartedEvent
                 /\ starts[s].status = "RUNNING"
            /\ starts[s].pc = "returned" =>
                 /\ starts[s].task_ip \in Ips
                 /\ starts[s].result =
                        Url(notebook_scheme, starts[s].task_ip, notebook_port))
    /\ [](\A slot \in Slots : \A k \in 1..Len(written[slot]) :
            written[slot][k] = ServerStartedEvent => k = Len(written[slot]))
    /\ [][\A s \in StartCalls : StartReturned(s) =>
            /\ ~IsClosed(buffers[progress_buffer])
            /\ IsClosed(buffers'[progress_buffer])
            /\ written' = written
            /\ LastWritten(progress_buffer) = ServerStartedEvent
         ]_vars

StartReturnedUrl ==
    /\ starts[1].pc = "returned"
    /\ starts[1].result.ip \in Ips
    /\ IsClosed(buffers[progress_buffer])

\* C3: a start() that gives up waiting for the IP address has issued exactly
\* max_polls DescribeTasks polls in the network-wait loop.
IpTimeoutAfterMaxPolls ==
    \A s \in StartCalls :
        (starts[s].pc = "raised" /\ starts[s].error.kind = "TimeoutIP")
            => starts[s].ip_polls = max_polls

\* C4: stop() with an empty task_arn returns without an API call; otherwise it
\* issues one StopTask for task_arn, returns normally when the call succeeds or
\* fails with an HTTPError whose body contains "task was not found", and raises
\* on every other failure; no step of stop() changes task_arn.
StopIssuesOneCall ==
    [][ /\ StopCalled =>
             IF task_arn = ""
             THEN stop'.pc = "returned" /\ stop'.calls = 0
             ELSE stop'.pc = "stop_task" /\ stop'.arn = task_arn /\ stop'.calls = 1
        /\ StopTaskReturned =>
             /\ stop'.calls = 1
             /\ stop'.pc = "returned" <=>
                    \/ stop'.response.kind = "ok"
                    \/ /\ stop'.response.kind = "HTTPError"
                       /\ Contains(stop'.response.body, <<"task", "was", "not", "found">>)
             /\ stop'.pc \in {"returned", "raised"}
        /\ (StopCalled \/ StopTaskReturned) => task_arn' = task_arn
      ]_vars

StopSwallowedNotFound ==
    /\ stop.pc = "returned"
    /\ stop.calls = 1
    /\ stop.response.kind = "HTTPError"
    /\ task_arn # ""

Active(i) == iterators[i].state \in {"ready", "awaiting"}

Buffer(i) == buffers[iterators[i].parent]

\* C5: whenever it subscribes, a subscriber receives the events from index 0
\* on in write order, none skipped or duplicated: what it has read is a prefix
\* of what was written, and two subscribers of one buffer agree on the events
\* both have read.
SubscribersReadPrefix ==
    \A i \in Iterators :
        iterators[i].state # "none" =>
            /\ iterators[i].state # "IndexError"
            /\ IsPrefix(iterators[i].read, written[iterators[i].parent])
            /\ \A j \in Iterators :
                  (iterators[j].state # "none" /\ iterators[j].parent = iterators[i].parent) =>
                      \/ IsPrefix(iterators[i].read, iterators[j].read)
                      \/ IsPrefix(iterators[j].read, iterators[i].read)

\* one subscriber has read everything, a second one is behind after events
\* were written
LateSubscriberCatchingUp ==
    /\ progress_buffer # 0
    /\ Len(written[progress_buffer]) = MaxWrites
    /\ iterators[1].state = "ready" /\ iterators[1].read = written[progress_buffer]
    /\ iterators[2].state = "ready" /\ Len(iterators[2].read) = 1

\* C6: after close() every subscriber that keeps iterating ends with
\* StopAsyncIteration, and exactly when it has received every written event;
\* a subscriber is suspended only when it has caught up with an open buffer,
\* stays suspended while its future is pending and resumes once it is set.
SubscribersTerminate ==
    /\ [](\A i \in Iterators :
            /\ iterators[i].state # "IndexError"
            /\ iterators[i].state = "stopped" =>
                 /\ IsClosed(Buffer(i))
                 /\ iterators[i].read = written[iterators[i].parent]
            /\ (iterators[i].state = "awaiting" /\ Awaited(iterators[i]).state = "pending") =>
                 /\ ~IsClosed(Buffer(i))
                 /\ iterators[i].read = written[iterators[i].parent])
    /\ [][\A i \in Iterators :
            (iterators[i].state = "awaiting" /\ iterators'[i] # iterators[i])
                => Awaited(iterators[i]).state # "pending"]_vars
    /\ \A i \in Iterators :
            (iterators[i].state = "awaiting" /\ Awaited(iterators[i]).state # "pending")
                ~> (iterators[i].state # "awaiting")
    /\ \A i \in Iterators :
            (Active(i) /\ IsClosed(Buffer(i))) ~> (iterators[i].state = "stopped")

\* both subscribers ended after reading the events of a closed buffer
AllSubscribersStopped ==
    /\ progress_buffer # 0
    /\ Len(written[progress_buffer]) >= 2
    /\ \A i \in Iterators :
          iterators[i].state = "stopped" /\ iterators[i].read = written[progress_buffer]

RunTaskInFlight(s) == starts[s].pc = "run_task"

AfterRunTask(s) ==
    starts[s].pc \in {"get_ip", "ip_sleep", "get_status", "status_sleep", "final_sleep"}

\* C7: while the RunTask of start() is in flight a poll() reports None, never
\* 0, although task_arn is empty; the step that completes a successful RunTask
\* clears the flag and records task_arn together, so no poll() sees the flag
\* down and task_arn empty after it.
PollSeesStartInFlight ==
    /\ [](\A s \in StartCalls :
            /\ RunTaskInFlight(s) => calling_run_task
            /\ AfterRunTask(s) => (~calling_run_task /\ task_arn = starts[s].task_arn
                                   /\ task_arn # ""))
    /\ [][ (PollCalled /\ \E s \in StartCalls : RunTaskInFlight(s))
              => (poll'.pc = "returned" /\ poll'.result = "None") ]_vars
    /\ [][ \A s \in StartCalls :
              (RunTaskInFlight(s) /\ starts'[s].task_arn # "")
                 => (~calling_run_task' /\ task_arn' = starts'[s].task_arn) ]_vars

PolledWhileRunTaskInFlight ==
    /\ RunTaskInFlight(1)
    /\ task_arn = ""
    /\ poll.pc = "returned" /\ poll.result = "None" /\ poll.calls = 0

\* C8: at most one RunTask call of start() is outstanding at any moment, also
\* when start() is invoked again while an earlier RunTask is in flight, and
\* the flag is up exactly while a RunTask call is outstanding.
AtMostOneRunTaskInFlight ==
    /\ Cardinality({s \in StartCalls : RunTaskInFlight(s)}) <= 1
    /\ calling_run_task <=> \E s \in StartCalls : RunTaskInFlight(s)

StatusObserved(s) == starts[s].pc = "get_status" /\ starts'[s] # starts[s]

\* C9: in the running-wait loop the first lastStatus outside "", PROVISIONING,
\* PENDING, RUNNING makes start() raise at once, naming the task and the
\* status, with no further poll, no further progress event and no URL; a
\* status inside the set, or a missing result, does not: start() sleeps,
\* writes the poll's progress and goes round the loop again.
DisallowedStatusFailsStart ==
    /\ [][\A s \in StartCalls : StatusObserved(s) =>
            \/ /\ starts'[s].pc = "raised"
               /\ starts'[s].error.kind = "HTTPError"
            \/ /\ starts'[s].pc = "raised"
               /\ starts'[s].error = Error("TaskFailed", starts[s].task_arn, starts'[s].status)
               /\ starts'[s].status \notin ClaimedAllowed
               /\ starts'[s].status_polls = starts[s].status_polls
               /\ starts'[s].result = NoUrl
               /\ buffers' = buffers /\ written' = written
            \/ /\ starts'[s].pc = "status_sleep"
               /\ starts'[s].status \in ClaimedAllowed
         ]_vars
    /\ [][\A s \in StartCalls :
            (starts[s].pc = "status_sleep" /\ starts[s].status # "RUNNING"
                /\ starts'[s] # starts[s]) =>
                \/ /\ starts'[s].pc = "get_status"
                   /\ starts'[s].status_polls = starts[s].status_polls + 1
                \/ /\ starts'[s].pc = "raised"
                   /\ starts'[s].error.kind = "TimeoutRunning"
         ]_vars
    /\ [](\A s \in StartCalls :
            (starts[s].pc = "raised" /\ starts[s].error.kind = "TaskFailed") =>
                /\ starts[s].result = NoUrl
                /\ \A k \in 1..Len(written[progress_buffer]) :
                      written[progress_buffer][k] # ServerStartedEvent)

StoppedAfterPending ==
    /\ starts[1].pc = "raised"
    /\ starts[1].error = Error("TaskFailed", "arn:task/new", "STOPPED")
    /\ starts[1].status_polls = 2

\* a step of clear_state, recognised by what it changes
Cleared ==
    /\ progress_buffer' # 0
    /\ \/ progress_buffer' # progress_buffer
       \/ producer'.base # producer.base
       \/ (task_arn # "" /\ task_arn' = "")

\* C10: clear_state() empties task_arn and installs a new, empty, open
\* progress buffer: a subscriber of the new buffer reads none of the events
\* written before the clear and reads the events written after it from the
\* first one on, and a poll() after the clear reports 0.
ClearStartsAfresh ==
    /\ [][Cleared =>
            /\ task_arn' = ""
            /\ IsFresh(buffers'[progress_buffer'])
            /\ written'[progress_buffer'] = <<>>
            /\ producer'.base = producer.writes
         ]_vars
    /\ [](progress_buffer # 0 => task_arn = "")
    /\ [](\A i \in Iterators :
            (iterators[i].state # "none" /\ iterators[i].parent = progress_buffer) =>
                \A k \in 1..Len(iterators[i].read) :
                    iterators[i].read[k] = Item(producer.base + k))
    /\ [][ (PollCalled /\ progress_buffer # 0 /\ ~calling_run_task)
              => (poll'.pc = "returned" /\ poll'.result = "0" /\ poll'.calls = 0) ]_vars

SubscribedAfterClear ==
    /\ producer.base >= 1
    /\ iterators[Subscriber].parent = progress_buffer
    /\ Len(iterators[Subscriber].read) >= 1
    /\ iterators[Subscriber].read = written[progress_buffer]
    /\ poll.pc = "returned" /\ poll.result = "0"

\* steps of get_credentials(), recognised by the frame they change
CredentialsCalled(c) == get_credentials[c].pc # "fetch" /\ get_credentials'[c] # get_credentials[c]

CredentialsFetched(c) == get_credentials[c].pc = "fetch" /\ get_credentials'[c] # get_credentials[c]

\* C11: called sequentially, get_credentials() fetches on every call until a
\* fetch has completed (the expiry starts at the sentinel); a call made while
\* now <= expiration issues no fetch and returns the cached credentials, which
\* stay as they are; a call made when now > expiration issues exactly one
\* fetch, replaces access key, secret key, session-token header and expiration
\* by the fetched values and returns the new credentials.
CredentialsRefreshOnExpiry ==
    /\ [](~endpoint.completed => authentication.expiration = Sentinel)
    /\ [][\A c \in Callers : CredentialsCalled(c) =>
            /\ authentication' = authentication
            /\ ~endpoint.completed => get_credentials'[c].pc = "fetch"
            /\ IF now <= authentication.expiration
               THEN /\ get_credentials'[c].pc = "returned"
                    /\ get_credentials'[c].fetches = 0
                    /\ get_credentials'[c].result =
                          [access_key_id |-> authentication.aws_access_key_id,
                           secret_access_key |-> authentication.aws_secret_access_key,
                           pre_auth_headers |-> authentication.pre_auth_headers]
               ELSE /\ get_credentials'[c].pc = "fetch"
                    /\ get_credentials'[c].fetches = 1
         ]_vars
    /\ [][\A c \in Callers : (CredentialsFetched(c) /\ get_credentials'[c].pc = "returned") =>
            LET body == endpoint'.last
            IN /\ get_credentials'[c].fetches = 1
               /\ authentication'.aws_access_key_id = body.AccessKeyId
               /\ authentication'.aws_secret_access_key = body.SecretAccessKey
               /\ authentication'.pre_auth_headers =
                     <<[name |-> SecurityTokenName, value |-> body.Token]>>
               /\ authentication'.expiration = body.Expiration.MM * SecondsPerMinute + body.Expiration.SS
               /\ get_credentials'[c].result =
                     [access_key_id |-> body.AccessKeyId,
                      secret_access_key |-> body.SecretAccessKey,
                      pre_auth_headers |-> <<[name |-> SecurityTokenName, value |-> body.Token]>>]
         ]_vars
    /\ [][\A c \in Callers : (CredentialsFetched(c) /\ get_credentials'[c].pc = "raised") =>
            authentication' = authentication]_vars

\* a call at the very moment of expiry returned the cached credentials
\* without a fetch, after an earlier call had refreshed them
CachedAtExpiry ==
    /\ endpoint.completed
    /\ now = authentication.expiration
    /\ get_credentials[1].pc = "returned" /\ get_credentials[1].fetches = 1
    /\ get_credentials[2].pc = "returned" /\ get_credentials[2].fetches = 0
    /\ get_credentials[2].result = get_credentials[1].result

\* the credentials made of the fields of one fetch response
CredsOf(body) ==
    [access_key_id |-> body.AccessKeyId, secret_access_key |-> body.SecretAccessKey,
     pre_auth_headers |-> <<[name |-> SecurityTokenName, value |-> body.Token]>>]

\* C12: when calls of get_credentials() overlap at the fetch, every
\* credentials value returned has access key, secret key and session token of
\* one single fetch response, and the cached fields are those of the last
\* fetch that completed (the trait defaults before any fetch has completed).
CredentialsNeverMixed ==
    /\ \A c \in Callers :
          get_credentials[c].pc = "returned" =>
              \E body \in FetchBodies : get_credentials[c].result = CredsOf(body)
    /\ IF endpoint.completed
       THEN /\ [access_key_id |-> authentication.aws_access_key_id,
                secret_access_key |-> authentication.aws_secret_access_key,
                pre_auth_headers |-> authentication.pre_auth_headers] = CredsOf(endpoint.last)
            /\ authentication.expiration =
                  endpoint.last.Expiration.MM * SecondsPerMinute + endpoint.last.Expiration.SS
       ELSE authentication = ECSRoleAuthentication_init

\* two calls found the credentials expired and fetched; one has returned the
\* credentials of its response and the cache is valid again, while the fetch
\* of the other is still outstanding
OverlappingRefresh ==
    /\ get_credentials[1].pc = "fetch"
    /\ get_credentials[2].pc = "returned" /\ get_credentials[2].fetches = 1
    /\ endpoint.completed
    /\ now <= authentication.expiration

\* the events a step appends to the current progress buffer
Appended == SubSeq(written'[progress_buffer], Len(written[progress_buffer]) + 1,
                   Len(written'[progress_buffer]))

Writes == progress_buffer' = progress_buffer /\ progress_buffer # 0 /\
          Len(written'[progress_buffer]) > Len(written[progress_buffer])

\* C13: in a start-attempt on a fresh progress buffer, whatever the remote
\* answers and whether start() succeeds or fails, every progress value written
\* lies in [0, 100], the values never decrease in write order, the value
\* 1 + k/max_polls written after a network-wait poll is below 2, the value
\* 2 + k/start_timeout * 98 written after a running-wait poll is below 100,
\* and 100 is written only by a start() that has observed status RUNNING.
ProgressBoundedMonotone ==
    /\ [](\A slot \in Slots :
            /\ \A k \in 1..Len(written[slot]) :
                  /\ written[slot][k].progress >= 0
                  /\ written[slot][k].progress <= 100 * Unit
            /\ \A k \in 1..(Len(written[slot]) - 1) :
                  written[slot][k].progress <= written[slot][k + 1].progress)
    /\ [][\A s \in StartCalls :
            /\ (starts[s].pc = "ip_sleep" /\ Writes) =>
                  /\ Appended[1].progress * max_polls =
                        Unit * max_polls + starts[s].num_polls * Unit
                  /\ Appended[1].progress < 2 * Unit
            /\ (starts[s].pc = "status_sleep" /\ Writes) =>
                  /\ Appended[1].progress * start_timeout =
                        2 * Unit * start_timeout + starts[s].num_polls * 98 * Unit
                  /\ Appended[1].progress < 100 * Unit
         ]_vars
    /\ [][(Writes /\ \E k \in 1..Len(Appended) : Appended[k].progress = 100 * Unit) =>
            \E s \in StartCalls : starts[s].pc = "status_sleep" /\ starts[s].status = "RUNNING"
         ]_vars

\* start() gave up waiting for RUNNING after writing the progress of its
\* last running-wait poll
ProgressUpToTimeout ==
    /\ starts[1].pc = "raised"
    /\ starts[1].error.kind = "TimeoutRunning"
    /\ starts[1].num_polls = start_timeout
    /\ LastWritten(progress_buffer) = RunningPollEvent(start_timeout - 1)
    /\ Len(written[progress_buffer]) >= 5

\* the trimmed, lower-cased name of an extra header, and the extra headers
\* whose name normalises to a given one
Normalised(name) == strip(lower(name))

ExtrasNamed(name) ==
    {i \in 1..Len(signing.args.pre_auth_headers) :
        Normalised(signing.args.pre_auth_headers[i].name) = name}

\* the value signed for a name of the signed-header list
SignedValue(name) ==
    IF name = HostName THEN signing.args.host
    ELSE IF name \in {ContentSha256Name, DateName} THEN Get(signing.headers, name)
    ELSE strip(signing.args.pre_auth_headers[CHOOSE i \in ExtrasNamed(name) : TRUE].value)

\* C14: the signed-header list is the ascending sort of the lower-cased,
\* trimmed names of the extra headers together with host, x-amz-content-sha256
\* and x-amz-date, each name exactly once; the canonical headers are one
\* name:value line per name of the list, in its order, with trimmed values;
\* the Authorization header carries the list joined by ';'; and the headers
\* returned are the extra headers as given followed by x-amz-date,
\* x-amz-content-sha256 and Authorization.
SignedHeadersSortedOnce ==
    signing.pc = "returned" =>
        LET names == signing.signed_header_keys
            extras == signing.args.pre_auth_headers
        IN /\ \A i \in 1..(Len(names) - 1) : StrLess(names[i], names[i + 1])
           /\ {names[i] : i \in 1..Len(names)} =
                 {Normalised(extras[i].name) : i \in 1..Len(extras)}
                    \cup {HostName, ContentSha256Name, DateName}
           /\ Len(names) = Len(extras) + 3
           /\ \E i \in 1..Len(names) :
                 names[i] = <<"x", "-", "a", "m", "z", "-", "t", "a", "r", "g", "e", "t">>
           /\ signing.canonical_headers =
                 join(<<>>, [i \in 1..Len(names) |->
                                names[i] \o <<":">> \o SignedValue(names[i]) \o <<"\n">>])
           /\ Contains(Get(signing.headers, AuthorizationName),
                       <<", SignedHeaders=">> \o join(<<";">>, names) \o <<", Signature=">>)
           /\ keys(signing.headers) =
                 keys(extras) \o <<DateName, ContentSha256Name, AuthorizationName>>
           /\ \A i \in 1..Len(extras) : signing.headers[i] = extras[i]
           /\ \A i, j \in 1..Len(signing.headers) :
                 signing.headers[i].name = signing.headers[j].name => i = j

\* a request carrying a session token with blanks around it was signed: the
\* list has six names, and the token is signed trimmed and sent as given
SignedWithSessionToken ==
    /\ signing.pc = "returned"
    /\ Len(signing.signed_header_keys) = 6
    /\ signing.signed_header_keys[5] = SecurityTokenName
    /\ Get(signing.args.pre_auth_headers, SecurityTokenName) = <<" ", "t", "o", "k", "1", " ">>
    /\ Contains(signing.canonical_headers, <<":", "t", "o", "k", "1", "\n">>)
    /\ Get(signing.headers, SecurityTokenName) = <<" ", "t", "o", "k", "1", " ">>

InProgress(s) == starts[s].pc \notin {"idle", "returned", "raised"}

\* C15: when every remote call and every sleep returns, start() ends, by
\* returning a URL or by raising, whatever the remote answers; it issues at
\* most one RunTask, fewer network-wait polls than max_polls and fewer
\* running-wait polls than start_timeout, and when a loop uses up its bound
\* start() raises the Timeout of that loop, naming the task.
StartTerminatesWithinBounds ==
    /\ [](\A s \in StartCalls :
            /\ starts[s].run_calls <= 1
            /\ starts[s].ip_polls < max_polls
            /\ starts[s].status_polls < start_timeout
            /\ (starts[s].pc = "raised" /\ starts[s].error.kind = "TimeoutIP") =>
                  /\ starts[s].ip_polls = max_polls - 1
                  /\ starts[s].status_polls = 0
                  /\ starts[s].error.task = starts[s].task_arn
                  /\ starts[s].error.task \in TaskArns
            /\ (starts[s].pc = "raised" /\ starts[s].error.kind = "TimeoutRunning") =>
                  /\ starts[s].status_polls = start_timeout - 1
                  /\ starts[s].error.task = starts[s].task_arn
                  /\ starts[s].error.task \in TaskArns
            /\ starts[s].pc = "returned" => starts[s].result # NoUrl)
    /\ [][\A s \in StartCalls :
            /\ (starts[s].pc = "ip_sleep" /\ starts[s].task_ip = ""
                  /\ starts[s].ip_polls = max_polls - 1 /\ starts'[s] # starts[s]) =>
                  (starts'[s].pc = "raised" /\ starts'[s].error.kind = "TimeoutIP")
            /\ (starts[s].pc = "status_sleep" /\ starts[s].status # "RUNNING"
                  /\ starts[s].status_polls = start_timeout - 1 /\ starts'[s] # starts[s]) =>
                  (starts'[s].pc = "raised" /\ starts'[s].error.kind = "TimeoutRunning")
         ]_vars
    /\ \A s \in StartCalls : InProgress(s) ~> (starts[s].pc \in {"returned", "raised"})

\* start() gave up waiting for the IP address after the last poll its bound
\* allows
GaveUpWaitingForIp ==
    /\ starts[1].pc = "raised"
    /\ starts[1].error = Error("TimeoutIP", "arn:task/new", "")
    /\ starts[1].run_calls = 1
    /\ starts[1].ip_polls = max_polls - 1

FailureKinds == {"HTTPError", "IndexError", "TimeoutIP", "TimeoutRunning", "TaskFailed"}

\* C16: only the success path of start() closes the progress buffer: a closed
\* buffer ends with the 100-point event and was closed by a start() that had
\* observed RUNNING; a start() that failed on RunTask, on a Timeout, on a
\* DescribeTasks error or on a disallowed status leaves the buffer open, and
\* a subscriber that has caught up stays suspended: its future is set only by
\* a later write to its buffer (or the close of a successful start), never by
\* a failing start() or by clear_state().
ClosedOnlyOnSuccess ==
    /\ [](\A slot \in Slots :
            IsClosed(buffers[slot]) =>
                (Len(written[slot]) > 0 /\ LastWritten(slot) = ServerStartedEvent))
    /\ [][\A slot \in Slots :
            (~IsClosed(buffers[slot]) /\ IsClosed(buffers'[slot])) =>
                \E s \in StartCalls :
                    /\ starts[s].pc = "final_sleep" /\ starts[s].status = "RUNNING"
                    /\ starts'[s].pc = "returned"
         ]_vars
    /\ [](\A s \in StartCalls :
            (starts[s].pc = "raised" /\ starts[s].error.kind \in FailureKinds) =>
                (progress_buffer # 0 /\ ~IsClosed(buffers[progress_buffer])))
    /\ [][\A i \in Iterators :
            (iterators[i].state = "awaiting" /\ Awaited(iterators[i]).state = "pending") =>
                /\ iterators'[i] = iterators[i]
                /\ \/ buffers'[iterators[i].parent] = buffers[iterators[i].parent]
                   \/ written'[iterators[i].parent] # written[iterators[i].parent]
                   \/ \E s \in StartCalls :
                         starts[s].pc = "final_sleep" /\ starts'[s].pc = "returned"
         ]_vars

\* start() failed on a disallowed status and the subscriber, having read
\* every event written, is suspended on the open buffer
SubscriberSuspendedAfterFailure ==
    /\ starts[1].pc = "raised" /\ starts[1].error.kind = "TaskFailed"
    /\ iterators[Subscriber].state = "awaiting"
    /\ iterators[Subscriber].parent = progress_buffer
    /\ iterators[Subscriber].read = written[progress_buffer]
    /\ Len(written[progress_buffer]) >= 4
    /\ ~IsClosed(buffers[progress_buffer])

LateFailures == {"TimeoutIP", "TimeoutRunning", "TaskFailed"}

\* C17: once RunTask has succeeded task_arn is the returned task id and is
\* changed only by clear_state(), by load_state() or by the RunTask of another
\* start(): a start() that fails with a Timeout or a disallowed status leaves
\* it as it is, a stop() invoked while it is non-empty issues StopTask for it,
\* and no poll() reports 0 for it.
TaskArnOutlivesFailure ==
    /\ [](\A s \in StartCalls : AfterRunTask(s) =>
            (task_arn = starts[s].task_arn /\ task_arn \in TaskArns))
    /\ [][\A s \in StartCalls :
            (AfterRunTask(s) /\ starts'[s].pc = "raised"
                /\ starts'[s].error.kind \in LateFailures) =>
                (task_arn' = task_arn /\ task_arn' = starts'[s].task_arn
                 /\ task_arn' \in TaskArns)
         ]_vars
    /\ [][(task_arn # "" /\ task_arn' # task_arn) =>
            \/ /\ task_arn' = ""
               /\ progress_buffer' # 0
               /\ IsFresh(buffers'[progress_buffer'])
               /\ NoStartInProgress
            \/ \A s \in StartCalls : starts[s] = IdleStart /\ starts'[s] = IdleStart
            \/ \E s \in StartCalls :
                  RunTaskInFlight(s) /\ starts'[s].task_arn = task_arn' /\ task_arn' \in TaskArns
         ]_vars
    /\ [][(StopCalled /\ task_arn # "") =>
            (stop'.pc = "stop_task" /\ stop'.arn = task_arn /\ stop'.calls = 1)]_vars
    /\ [][(PollCalled /\ task_arn # "") =>
            ~(poll'.pc = "returned" /\ poll'.result = "0")]_vars
    /\ [][(PollDescribed /\ poll'.pc = "returned") => poll'.result \in {"None", "1"}]_vars

\* start() timed out waiting for RUNNING; the task it created is still
\* recorded, a stop() is stopping it and a poll() has asked the remote about it
StoppingAfterFailedStart ==
    /\ starts[1].pc = "raised" /\ starts[1].error.kind = "TimeoutRunning"
    /\ task_arn = "arn:task/new"
    /\ stop.pc = "stop_task" /\ stop.arn = "arn:task/new"
    /\ poll.pc = "returned" /\ poll.calls = 1 /\ poll.result = "1"

RunTaskFailures == {"HTTPError", "IndexError"}

RunTaskFailed(s) ==
    /\ starts[s].pc = "raised"
    /\ starts[s].error.kind \in RunTaskFailures
    /\ starts[s].run_calls = 1
    /\ starts[s].task_arn = ""

\* C18: when RunTask fails or its response holds no task, start() raises with
\* the flag down and task_arn as it was, having issued no DescribeTasks and
\* written nothing after the first event; a poll() invoked after that with an
\* empty task_arn returns 0 without asking the remote.
RunTaskFailureLeavesNotStarted ==
    /\ [][\A s \in StartCalls :
            (RunTaskInFlight(s) /\ starts'[s].pc = "raised") =>
                /\ starts'[s].error.kind \in RunTaskFailures
                /\ ~calling_run_task'
                /\ task_arn' = task_arn
                /\ written' = written
         ]_vars
    /\ [](\A s \in StartCalls : RunTaskFailed(s) =>
            /\ ~calling_run_task
            /\ starts[s].ip_polls = 0
            /\ starts[s].status_polls = 0
            /\ starts[s].result = NoUrl)
    /\ [][(PollCalled /\ task_arn = "" /\ \E s \in StartCalls : RunTaskFailed(s)) =>
            (poll'.pc = "returned" /\ poll'.result = "0" /\ poll'.calls = 0)]_vars

\* RunTask answered without a task: start() has raised, nothing is recorded,
\* and poll() reports 0
NotStartedAfterRunTaskFailure ==
    /\ starts[1].pc = "raised" /\ starts[1].error.kind = "IndexError"
    /\ starts[1].run_calls = 1
    /\ task_arn = "" /\ ~calling_run_task
    /\ written[progress_buffer] = <<StartingEvent>>
    /\ poll.pc = "returned" /\ poll.result = "0" /\ poll.calls = 0

\* C19: stop() reads task_arn once, when invoked: with task_arn empty and a
\* RunTask in flight it returns at once without a StopTask; otherwise the
\* StopTask it issues names the task_arn of that moment. No step of start()
\* changes the frame of stop(), so a task recorded later is not stopped.
StopDecidesAtInvocation ==
    /\ [][(StopCalled /\ task_arn = "") =>
            (stop'.pc = "returned" /\ stop'.calls = 0 /\ stop'.arn = "")]_vars
    /\ [][(StopCalled /\ task_arn # "") =>
            (stop'.pc = "stop_task" /\ stop'.calls = 1 /\ stop'.arn = task_arn)]_vars
    /\ [][StopTaskReturned => stop'.calls = stop.calls]_vars
    /\ [][starts' # starts => stop' = stop]_vars
    /\ [](stop.pc = "returned" /\ stop.calls = 0 => stop.arn = "")

\* stop() returned without a StopTask and the start() that was in flight has
\* since recorded its task, which is still being polled
TaskRecordedAfterStopReturned ==
    /\ stop.pc = "returned" /\ stop.calls = 0
    /\ ~calling_run_task /\ task_arn # ""
    /\ starts[1].pc = "get_status" /\ starts[1].task_arn = task_arn

\* C20: a poll() that asked the remote (task_arn not empty, no RunTask in
\* flight) and was told of no task returns None: the missing task is read as
\* status "", which is among the allowed ones, so the answer is neither 1 nor 0.
MissingTaskReportedAsStarting ==
    /\ [][(PollDescribed /\ poll'.pc = "returned" /\ poll'.seen = Missing) =>
            /\ poll.arn # "" /\ poll.calls = 1
            /\ poll'.result = "None"]_vars
    /\ [](\A response \in DescribeResponses :
            Seen(response.body) = Missing =>
                /\ _get_task_status(response.body) = ""
                /\ _get_task_status(response.body) \in ALLOWED_STATUSES)
    /\ [](poll.pc = "returned" /\ poll.seen = Missing => poll.result \notin {"0", "1"})

\* poll() asked about the recorded task, the remote knew of no such task,
\* and poll() returned None
PolledMissingTask ==
    /\ poll.pc = "returned" /\ poll.calls = 1 /\ poll.seen = Missing
    /\ poll.result = "None"
    /\ task_arn # "" /\ ~calling_run_task

====
